---- MODULE Spec2Model ----
(***************************************************************************)
(* A model of the Sim Python SDK client (simstudio/__init__.py):           *)
(* SimStudioClient.execute_workflow, its request body and the payload      *)
(* encoder (_convert_files_to_base64), its response classification, the    *)
(* rate-limit tracker (_update_rate_limit_info), the read endpoints,       *)
(* set_api_key, and the retry controller execute_with_retry.               *)
(*                                                                         *)
(* Python values are modelled as follows.                                  *)
(*   Optional[x]   None is the empty tuple << >>, a value v is <<v>>.      *)
(*   str           a TLA+ string; a formatted message is the tuple of its  *)
(*                 pieces, each piece a string.                            *)
(*   JSON values   opaque string tokens ("true", "{x:1}", ...).            *)
(*   headers       a function from the header names present to strings.    *)
(*   seconds       integers; a sleep is measured in eighths of a second.   *)
(*   value trees   tagged records: leaf, list, dict, file-like object.      *)
(*   bytes         tuples of integers 0..255.                              *)
(***************************************************************************)
EXTENDS Integers, Sequences, FiniteSets, TLC

VARIABLES
    rate_limit_info,   \* self._rate_limit_info : Optional[RateLimitInfo]
    session_headers,   \* self._session.headers : the session's default headers
    response,          \* the response the remote service gives to the next exchange
    sent,              \* the headers of the request of the latest exchange
    sent_async,        \* the async_execution argument of that exchange's call, if any
    earlier_async,     \* TRUE once an exchange before the latest one asked for async
    call,              \* per caller thread: the call in progress and its outcome
    api_key,           \* self.api_key
    input_data,        \* the input value the caller holds and passes to its calls
    files,             \* the file-like objects of the input, by identity
    encoded,           \* the values returned by the encoder calls made so far
    sent_body,         \* the JSON body of the request of the latest execute exchange
    sent_url           \* the URL of the request of the latest exchange

vars == <<rate_limit_info, session_headers, response, sent, sent_async,
          earlier_async, call, api_key, input_data, files, encoded, sent_body,
          sent_url>>

----------------------------------------------------------------------------
(* Optional values *)

None == << >>
Some(v) == <<v>>
IsNone(o) == o = << >>
Val(o) == o[1]

----------------------------------------------------------------------------
(* Bounds of the model *)

\* Largest max_retries a caller passes to execute_with_retry.
MaxRetriesArg == 2

\* Longest list, and most keys of a dict, in an input value.
MaxLen == 2

\* Most calls of the encoder on one input value.
MaxEncodes == 2

\* The caller threads that share the client; calls of Sequential follow one another.
Threads == {"t1", "t2"}
Sequential == {"t1"}

----------------------------------------------------------------------------
(* int(str) and str(int) on the strings and numbers that occur *)

\* The header strings Python's int() accepts, with their values.
IntLiterals ==
    [s \in {"0", "1", "2", "4", "7", "9", "-1"} |->
        CASE s = "0" -> 0
          [] s = "1" -> 1
          [] s = "2" -> 2
          [] s = "4" -> 4
          [] s = "7" -> 7
          [] s = "9" -> 9
          [] s = "-1" -> 0 - 1]

\* int(s) raises ValueError for any other string (a word, an HTTP date).
IntParses(s) == s \in DOMAIN IntLiterals
IntOf(s) == IntLiterals[s]

\* str(n) / f"{n}" for the integers a message can show.
StrOfInt(n) ==
    CASE n = 0 -> "0"
      [] n = 1000 -> "1000"
      [] n = 2000 -> "2000"
      [] n = 0 - 1000 -> "-1000"
      [] n = 200 -> "200"
      [] n = 202 -> "202"
      [] n = 401 -> "401"
      [] n = 404 -> "404"
      [] n = 429 -> "429"
      [] n = 500 -> "500"
      [] n = 503 -> "503"
      [] OTHER -> "int"

\* f"{x}" of an Optional[int]: None prints as "None".
StrOfOptInt(o) == IF IsNone(o) THEN "None" ELSE StrOfInt(Val(o))

----------------------------------------------------------------------------
(* Responses *)

HeaderNames == {"x-ratelimit-limit", "x-ratelimit-remaining", "x-ratelimit-reset",
                "retry-after"}

\* Header values that are no integer literal: a retry-after given as an HTTP date,
\* a reset time given as an ISO timestamp.
HttpDate == "Wed, 21 Oct 2015 07:28:00 GMT"
IsoTime == "2024-01-01T00:01:00Z"

\* response.headers.get(name): None when the header is absent.
HeaderGet(headers, name) ==
    IF name \in DOMAIN headers THEN Some(headers[name]) ELSE None

\* Truth value of an Optional[str]: None and "" are false.
Truthy(o) == ~IsNone(o) /\ Val(o) # ""

\* response.ok
Ok(status) == status < 400

\* response.reason
Reason(status) ==
    CASE status = 200 -> "OK"
      [] status = 202 -> "Accepted"
      [] status = 401 -> "Unauthorized"
      [] status = 404 -> "Not Found"
      [] status = 429 -> "Too Many Requests"
      [] status = 500 -> "Internal Server Error"
      [] status = 503 -> "Service Unavailable"
      [] OTHER -> "Unknown"

\* A JSON object body is the function from its keys to its values; a body that is
\* JSON but no object (a list) and a body that is not JSON carry no keys.
JsonObject(obj) == [json |-> "object", obj |-> obj]
JsonArray == [json |-> "array", obj |-> << >>]
NotJson == [json |-> "invalid", obj |-> << >>]

\* dict.get(key) and dict.get(key, default)
Get(obj, key) == IF key \in DOMAIN obj THEN Some(obj[key]) ELSE None
GetOr(obj, key, default) == IF key \in DOMAIN obj THEN obj[key] ELSE default

Response(status, headers, body) ==
    [transport |-> "ok", status |-> status, headers |-> headers, body |-> body]

\* requests.Timeout, and any other requests.RequestException, raised by the transport.
TransportTimeout ==
    [transport |-> "timeout", status |-> 0, headers |-> << >>, body |-> NotJson]
TransportError ==
    [transport |-> "error", status |-> 0, headers |-> << >>, body |-> NotJson]

NoHeaders == << >>
RateHeaders(limit, remaining, reset) ==
    [h \in {"x-ratelimit-limit", "x-ratelimit-remaining", "x-ratelimit-reset"} |->
        CASE h = "x-ratelimit-limit" -> limit
          [] h = "x-ratelimit-remaining" -> remaining
          [] h = "x-ratelimit-reset" -> reset]
WithRetryAfter(headers, value) ==
    [h \in DOMAIN headers \cup {"retry-after"} |->
        IF h = "retry-after" THEN value ELSE headers[h]]

\* Every header set over the given values: each header absent or one of its values.
HeaderSets(limits, remainings, resets, retryAfters) ==
    UNION { { h \in [D -> limits \cup remainings \cup resets \cup retryAfters] :
                /\ "x-ratelimit-limit" \in D => h["x-ratelimit-limit"] \in limits
                /\ "x-ratelimit-remaining" \in D => h["x-ratelimit-remaining"] \in remainings
                /\ "x-ratelimit-reset" \in D => h["x-ratelimit-reset"] \in resets
                /\ "retry-after" \in D => h["retry-after"] \in retryAfters }
            : D \in SUBSET HeaderNames }

BodySyncOk == JsonObject([success |-> "true", output |-> "{x:1}"])
BodySyncFailed == JsonObject([success |-> "false", error |-> "boom"])
BodySyncFull ==
    JsonObject([success |-> "true", output |-> "{x:1}", error |-> "partial", logs |-> "[l1]",
                metadata |-> "{duration:1000}", traceSpans |-> "[s1]",
                totalDuration |-> "12.5"])
BodyNoSuccess == JsonObject([output |-> "{x:1}"])
BodyEmpty == JsonObject(<< >>)
BodyTask == JsonObject([taskId |-> "t1", status |-> "queued"])
BodyTaskOnly == JsonObject([taskId |-> "t1"])
BodyTaskFull ==
    JsonObject([success |-> "false", taskId |-> "t2", status |-> "processing",
                createdAt |-> "2024-01-01T00:00:00Z", links |-> "{status:/api/jobs/t2}"])
BodyDeployed == JsonObject([isDeployed |-> "true", deployedAt |-> "2024-01-01T00:00:00Z"])
BodyNotDeployed == JsonObject([isDeployed |-> "false", needsRedeployment |-> "true"])
BodyJobNotFound == JsonObject([error |-> "Job not found", code |-> "JOB_NOT_FOUND"])
BodyServerError == JsonObject([error |-> "Server error"])
BodyCodeOnly == JsonObject([code |-> "BAD_REQUEST"])
BodyRateCode == JsonObject([error |-> "Quota exhausted", code |-> "RATE_LIMIT_EXCEEDED"])

----------------------------------------------------------------------------
(* Outcomes of a call: a returned value or a raised exception *)

Returned(type, value) == [kind |-> "returned", type |-> type, value |-> value]

\* SimStudioError(message, code=None, status=None)
SimStudioError(message, code, status) ==
    [kind |-> "raised", type |-> "SimStudioError",
     value |-> [message |-> message, code |-> code, status |-> status]]

\* Any other exception that leaves the call (ValueError, KeyError, TypeError, ...).
Exception(type) == [kind |-> "raised", type |-> type, value |-> << >>]

NoOutcome == [kind |-> "none", type |-> "none", value |-> << >>]

IsSimStudioError(out) == out.kind = "raised" /\ out.type = "SimStudioError"
HasCode(out, code) == IsSimStudioError(out) /\ out.value.code = Some(code)

----------------------------------------------------------------------------
(* The rate-limit tracker *)

RateLimitInfo(limit, remaining, reset, retry_after) ==
    [limit |-> limit, remaining |-> remaining, reset |-> reset,
     retry_after |-> retry_after]

\* int(x) if x else 0
IntOrZero(o) == IF Truthy(o) THEN IntOf(Val(o)) ELSE 0

\* int(retry_after) * 1000 if retry_after else None
RetryAfterMs(o) == IF Truthy(o) THEN Some(IntOf(Val(o)) * 1000) ELSE None

\* A variant that drops the snapshot when a response carries none of the three
\* rate-limit headers.
UpdateRateLimitInfoClears(info, headers) ==
    LET limit == HeaderGet(headers, "x-ratelimit-limit")
        remaining == HeaderGet(headers, "x-ratelimit-remaining")
        reset == HeaderGet(headers, "x-ratelimit-reset")
        retry_after == HeaderGet(headers, "retry-after")
        parsed == {o \in {limit, remaining, reset, retry_after} : Truthy(o)}
    IN  IF Truthy(limit) \/ Truthy(remaining) \/ Truthy(reset)
        THEN IF \E o \in parsed : ~IntParses(Val(o))
             THEN [raised |-> TRUE, info |-> info]
             ELSE [raised |-> FALSE,
                   info |-> Some(RateLimitInfo(IntOrZero(limit), IntOrZero(remaining),
                                               IntOrZero(reset),
                                               RetryAfterMs(retry_after)))]
        ELSE [raised |-> FALSE, info |-> None]

\* _update_rate_limit_info: the snapshot after observing the headers, or the
\* ValueError of an int() whose argument is no integer literal.  The new snapshot is
\* built before it is assigned, so a ValueError leaves the old one in place.
UpdateRateLimitInfo(info, headers) ==
    LET limit == HeaderGet(headers, "x-ratelimit-limit")
        remaining == HeaderGet(headers, "x-ratelimit-remaining")
        reset == HeaderGet(headers, "x-ratelimit-reset")
        retry_after == HeaderGet(headers, "retry-after")
        parsed == {o \in {limit, remaining, reset, retry_after} : Truthy(o)}
    IN  IF Truthy(limit) \/ Truthy(remaining) \/ Truthy(reset)
        THEN IF \E o \in parsed : ~IntParses(Val(o))
             THEN [raised |-> TRUE, info |-> info]
             ELSE [raised |-> FALSE,
                   info |-> Some(RateLimitInfo(IntOrZero(limit), IntOrZero(remaining),
                                               IntOrZero(reset),
                                               RetryAfterMs(retry_after)))]
        ELSE [raised |-> FALSE, info |-> info]

----------------------------------------------------------------------------
(* Response classification *)

\* f'HTTP {response.status_code}: {response.reason}'
HttpMessage(resp) == <<"HTTP ", StrOfInt(resp.status), ": ", Reason(resp.status)>>

\* The `if not response.ok:` block shared by the endpoints: the error message and
\* code come from a JSON object body; a body that is not JSON (ValueError, caught)
\* gives the synthesized message; a JSON body without .get (a list) raises
\* AttributeError, which the block does not catch.
ErrorFromResponse(resp) ==
    CASE resp.body.json = "invalid" ->
            SimStudioError(HttpMessage(resp), None, Some(resp.status))
      [] resp.body.json = "array" ->
            Exception("AttributeError")
      [] OTHER ->
            SimStudioError(IF "error" \in DOMAIN resp.body.obj
                           THEN <<resp.body.obj["error"]>>
                           ELSE HttpMessage(resp),
                           Get(resp.body.obj, "code"),
                           Some(resp.status))

\* The fallback of the 429 message when the client holds no snapshot.
FallbackRetryAfterMs == 1000

\* The 429 branch of execute_workflow, given the snapshot after the update.
RateLimitError(info) ==
    LET retry_after == IF ~IsNone(info) THEN Val(info).retry_after
                       ELSE Some(FallbackRetryAfterMs)
    IN  SimStudioError(<<"Rate limit exceeded. Retry after ", StrOfOptInt(retry_after), "ms">>,
                       Some("RATE_LIMIT_EXCEEDED"), Some(429))

AsyncExecutionResult(obj) ==
    Returned("AsyncExecutionResult",
             [success |-> GetOr(obj, "success", "true"),
              task_id |-> obj["taskId"],
              status |-> GetOr(obj, "status", "queued"),
              created_at |-> GetOr(obj, "createdAt", ""),
              links |-> GetOr(obj, "links", "{}")])

WorkflowExecutionResult(obj) ==
    Returned("WorkflowExecutionResult",
             [success |-> obj["success"],
              output |-> Get(obj, "output"),
              error |-> Get(obj, "error"),
              logs |-> Get(obj, "logs"),
              metadata |-> Get(obj, "metadata"),
              trace_spans |-> Get(obj, "traceSpans"),
              total_duration |-> Get(obj, "totalDuration")])

\* Is this the async response (202 with a taskId)?
IsAsyncResponse(resp) == resp.status = 202 /\ "taskId" \in DOMAIN resp.body.obj

\* The success path of execute_workflow (lines 237-257).
ResultFromResponse(resp) ==
    CASE resp.body.json = "invalid" ->
            \* response.json() raises requests' JSONDecodeError, a RequestException
            SimStudioError(<<"Failed to execute workflow: ", "invalid JSON">>,
                           Some("EXECUTION_ERROR"), None)
      [] resp.body.json = "array" ->
            \* 'taskId' in [] is false; result_data['success'] on a list
            Exception("TypeError")
      [] IsAsyncResponse(resp) ->
            AsyncExecutionResult(resp.body.obj)
      [] "success" \notin DOMAIN resp.body.obj ->
            Exception("KeyError")
      [] OTHER ->
            WorkflowExecutionResult(resp.body.obj)

\* A variant without the except clause for requests.Timeout: a timeout is caught
\* as any other RequestException.
TransportFailureNoTimeoutClause(resp) ==
    SimStudioError(<<"Failed to execute workflow: ", "connection failed">>,
                   Some("EXECUTION_ERROR"), None)

\* The except clauses of execute_workflow: requests.Timeout first, then any other
\* requests.RequestException.
TransportFailure(resp) ==
    IF resp.transport = "timeout"
    THEN SimStudioError(<<"Workflow execution timed out after ", "30.0", " seconds">>,
                        Some("TIMEOUT"), None)
    ELSE SimStudioError(<<"Failed to execute workflow: ", "connection failed">>,
                        Some("EXECUTION_ERROR"), None)

\* execute_workflow from the response on: the tracker update, then the
\* classification.  The result is the new snapshot and the call's outcome.
ExecuteWorkflowOn(info, resp) ==
    CASE resp.transport # "ok" ->
            [info |-> info, out |-> TransportFailure(resp)]
      [] OTHER ->
            LET upd == UpdateRateLimitInfo(info, resp.headers)
            IN  IF upd.raised
                THEN [info |-> info, out |-> Exception("ValueError")]
                ELSE [info |-> upd.info,
                      out |-> IF resp.status = 429 THEN RateLimitError(upd.info)
                              ELSE IF ~Ok(resp.status) THEN ErrorFromResponse(resp)
                              ELSE ResultFromResponse(resp)]

\* get_job_status from the response on.
GetJobStatusOn(info, resp) ==
    IF resp.transport # "ok"
    THEN [info |-> info,
          out |-> SimStudioError(<<"Failed to get job status: ", "connection failed">>,
                                 Some("STATUS_ERROR"), None)]
    ELSE LET upd == UpdateRateLimitInfo(info, resp.headers)
         IN  IF upd.raised
             THEN [info |-> info, out |-> Exception("ValueError")]
             ELSE [info |-> upd.info,
                   out |-> IF ~Ok(resp.status) THEN ErrorFromResponse(resp)
                           ELSE IF resp.body.json = "invalid"
                           THEN SimStudioError(<<"Failed to get job status: ", "invalid JSON">>,
                                               Some("STATUS_ERROR"), None)
                           ELSE Returned("dict", resp.body)]

\* get_usage_limits from the response on.
GetUsageLimitsOn(info, resp) ==
    IF resp.transport # "ok"
    THEN [info |-> info,
          out |-> SimStudioError(<<"Failed to get usage limits: ", "connection failed">>,
                                 Some("USAGE_ERROR"), None)]
    ELSE LET upd == UpdateRateLimitInfo(info, resp.headers)
         IN  IF upd.raised
             THEN [info |-> info, out |-> Exception("ValueError")]
             ELSE [info |-> upd.info,
                   out |-> IF ~Ok(resp.status) THEN ErrorFromResponse(resp)
                           ELSE IF resp.body.json = "invalid"
                           THEN SimStudioError(<<"Failed to get usage limits: ", "invalid JSON">>,
                                               Some("USAGE_ERROR"), None)
                           ELSE IF resp.body.json = "array"
                           THEN Exception("AttributeError")
                           ELSE Returned("UsageLimits",
                                         [success |-> GetOr(resp.body.obj, "success", "true"),
                                          rate_limit |-> GetOr(resp.body.obj, "rateLimit", "{}"),
                                          usage |-> GetOr(resp.body.obj, "usage", "{}")])]

\* get_workflow_status from the response on.  This endpoint does not call
\* _update_rate_limit_info: the snapshot is the one before the exchange.
GetWorkflowStatusOn(info, resp) ==
    IF resp.transport # "ok"
    THEN [info |-> info,
          out |-> SimStudioError(<<"Failed to get workflow status: ", "connection failed">>,
                                 Some("STATUS_ERROR"), None)]
    ELSE [info |-> info,
          out |-> IF ~Ok(resp.status) THEN ErrorFromResponse(resp)
                  ELSE IF resp.body.json = "invalid"
                  THEN SimStudioError(<<"Failed to get workflow status: ", "invalid JSON">>,
                                      Some("STATUS_ERROR"), None)
                  ELSE IF resp.body.json = "array"
                  THEN Exception("AttributeError")
                  ELSE Returned("WorkflowStatus",
                                [is_deployed |-> GetOr(resp.body.obj, "isDeployed", "false"),
                                 deployed_at |-> Get(resp.body.obj, "deployedAt"),
                                 needs_redeployment |->
                                     GetOr(resp.body.obj, "needsRedeployment", "false")])]

\* A variant without the except clause: an error of get_workflow_status leaves
\* the call.
ValidateResultReraises(status_out) ==
    IF status_out.kind = "returned"
    THEN Returned("bool", status_out.value.is_deployed)
    ELSE status_out

\* validate_workflow, given the outcome of its get_workflow_status call: the
\* is_deployed of the status, False for a SimStudioError; any other exception is
\* not caught.
ValidateResult(status_out) ==
    IF status_out.kind = "returned"
    THEN Returned("bool", status_out.value.is_deployed)
    ELSE IF IsSimStudioError(status_out)
    THEN Returned("bool", "false")
    ELSE status_out

\* get_rate_limit_info(): the current snapshot.
GetRateLimitInfo == rate_limit_info

----------------------------------------------------------------------------
(* Input values and the payload encoder (_convert_files_to_base64) *)

\* A Python value tree.  A scalar is a leaf holding its text as a tuple of string
\* pieces; a list holds its items in order; a dict holds its keys in insertion
\* order with the values at the same positions; a file-like object is named by its
\* identity, its state is in `files`.
Leaf(v) == [t |-> "leaf", v |-> v]
FileObj(id) == [t |-> "file", id |-> id]
List(items) == [t |-> "list", items |-> items]
Dict(keys, vals) == [t |-> "dict", keys |-> keys, vals |-> vals]
EmptyDict == Dict(<< >>, << >>)

\* dict[key] = value: a new key goes to the end, an existing key keeps its place.
DictSet(d, key, value) ==
    IF \E i \in 1..Len(d.keys) : d.keys[i] = key
    THEN Dict(d.keys, [i \in 1..Len(d.keys) |-> IF d.keys[i] = key THEN value ELSE d.vals[i]])
    ELSE Dict(Append(d.keys, key), Append(d.vals, value))

\* The base64 alphabet; the character at index n + 1 stands for the sextet n.
Base64Alphabet ==
    <<"A", "B", "C", "D", "E", "F", "G", "H", "I", "J", "K", "L", "M", "N", "O", "P",
      "Q", "R", "S", "T", "U", "V", "W", "X", "Y", "Z", "a", "b", "c", "d", "e", "f",
      "g", "h", "i", "j", "k", "l", "m", "n", "o", "p", "q", "r", "s", "t", "u", "v",
      "w", "x", "y", "z", "0", "1", "2", "3", "4", "5", "6", "7", "8", "9", "+", "/">>

Base64Char(sextet) == Base64Alphabet[sextet + 1]

\* base64.b64encode(file_bytes).decode('utf-8'): the text as a tuple of characters.
\* Three bytes give four characters; a last group of one or two bytes is padded
\* with "=".
RECURSIVE B64Encode(_)
B64Encode(bytes) ==
    IF Len(bytes) = 0 THEN << >>
    ELSE IF Len(bytes) = 1
    THEN <<Base64Char(bytes[1] \div 4), Base64Char((bytes[1] % 4) * 16), "=", "=">>
    ELSE IF Len(bytes) = 2
    THEN <<Base64Char(bytes[1] \div 4),
           Base64Char((bytes[1] % 4) * 16 + bytes[2] \div 16),
           Base64Char((bytes[2] % 16) * 4), "=">>
    ELSE <<Base64Char(bytes[1] \div 4),
           Base64Char((bytes[1] % 4) * 16 + bytes[2] \div 16),
           Base64Char((bytes[2] % 16) * 4 + bytes[3] \div 64),
           Base64Char(bytes[3] % 64)>>
         \o B64Encode(SubSeq(bytes, 4, Len(bytes)))

\* A file-like object: its bytes, its read position, whether it has tell and seek,
\* its name attribute (None without one; a str name is the tuple of its path
\* components) and its content_type attribute (None without one).
FileObject(content, pos, has_tell, has_seek, name, content_type) ==
    [content |-> content, pos |-> pos, has_tell |-> has_tell, has_seek |-> has_seek,
     name |-> name, content_type |-> content_type]

\* value.read(): the bytes from the position to the end.
ReadAll(f) == SubSeq(f.content, f.pos + 1, Len(f.content))

\* os.path.basename of a path given by its components.
Basename(parts) == IF Len(parts) = 0 THEN "" ELSE parts[Len(parts)]

\* getattr(value, 'name', 'file'), reduced to its basename.
FileName(f) == IF IsNone(f.name) THEN "file" ELSE Basename(Val(f.name))

\* getattr(value, 'content_type', 'application/octet-stream')
ContentType(f) ==
    IF IsNone(f.content_type) THEN "application/octet-stream" ELSE Val(f.content_type)

\* The file-reference object built from the bytes read.
FileReference(f, file_bytes) ==
    Dict(<<"type", "data", "name", "mime">>,
         <<Leaf(<<"file">>),
           Leaf(<<"data:", ContentType(f), ";base64,">> \o B64Encode(file_bytes)),
           Leaf(<<FileName(f)>>),
           Leaf(<<ContentType(f)>>)>>)

\* A variant that leaves every object at its end, without the seek back.
AfterReadNoSeek(f) == [f EXCEPT !.pos = Len(f.content)]

\* The object after the encoder has read it: at its end, or back at the position
\* before the read when it has both tell and seek.
AfterRead(f) ==
    LET initial_pos == IF f.has_tell THEN Some(f.pos) ELSE None
    IN  IF ~IsNone(initial_pos) /\ f.has_seek
        THEN [f EXCEPT !.pos = Val(initial_pos)]
        ELSE [f EXCEPT !.pos = Len(f.content)]

\* _convert_files_to_base64(value) with the file objects in state fs: the value
\* returned and the state of the file objects afterwards.  Items of a list and
\* values of a dict are converted in order, each seeing the reads before it.
RECURSIVE ConvertFilesToBase64(_, _)
RECURSIVE ConvertItems(_, _)
ConvertFilesToBase64(value, fs) ==
    CASE value.t = "file" ->
            [value |-> FileReference(fs[value.id], ReadAll(fs[value.id])),
             files |-> [fs EXCEPT ![value.id] = AfterRead(fs[value.id])]]
      [] value.t = "list" ->
            LET r == ConvertItems(value.items, fs)
            IN  [value |-> List(r.items), files |-> r.files]
      [] value.t = "dict" ->
            LET r == ConvertItems(value.vals, fs)
            IN  [value |-> Dict(value.keys, r.items), files |-> r.files]
      [] OTHER ->
            [value |-> value, files |-> fs]

\* A variant that returns the converted items in reverse order.
RECURSIVE ConvertItemsReversed(_, _)
ConvertItemsReversed(items, fs) ==
    IF Len(items) = 0 THEN [items |-> << >>, files |-> fs]
    ELSE LET head == ConvertFilesToBase64(items[1], fs)
             rest == ConvertItemsReversed(SubSeq(items, 2, Len(items)), head.files)
         IN  [items |-> rest.items \o <<head.value>>, files |-> rest.files]

\* The conversion mapped over a sequence of values, left to right.
ConvertItems(items, fs) ==
    IF Len(items) = 0 THEN [items |-> << >>, files |-> fs]
    ELSE LET head == ConvertFilesToBase64(items[1], fs)
             rest == ConvertItems(SubSeq(items, 2, Len(items)), head.files)
         IN  [items |-> <<head.value>> \o rest.items, files |-> rest.files]

\* A variant of the request body that always sets stream, to null when not given.
RequestBodyStreamDefault(input, stream, selected_outputs, fs) ==
    LET body == IF ~IsNone(input) THEN Val(input) ELSE EmptyDict
        conv == ConvertFilesToBase64(body, fs)
        with_stream == DictSet(conv.value, "stream",
                               Leaf(<<IF IsNone(stream) THEN "null"
                                      ELSE IF Val(stream) THEN "true" ELSE "false">>))
        with_outputs == IF ~IsNone(selected_outputs)
                        THEN DictSet(with_stream, "selectedOutputs",
                                     List([i \in 1..Len(Val(selected_outputs)) |->
                                             Leaf(<<Val(selected_outputs)[i]>>)]))
                        ELSE with_stream
    IN  [body |-> with_outputs, files |-> conv.files]

\* The JSON body of execute_workflow: the converted copy of the input (an empty
\* dict without input), with stream and selectedOutputs set when they are given.
RequestBody(input, stream, selected_outputs, fs) ==
    LET body == IF ~IsNone(input) THEN Val(input) ELSE EmptyDict
        conv == ConvertFilesToBase64(body, fs)
        with_stream == IF ~IsNone(stream)
                       THEN DictSet(conv.value, "stream",
                                    Leaf(<<IF Val(stream) THEN "true" ELSE "false">>))
                       ELSE conv.value
        with_outputs == IF ~IsNone(selected_outputs)
                        THEN DictSet(with_stream, "selectedOutputs",
                                     List([i \in 1..Len(Val(selected_outputs)) |->
                                             Leaf(<<Val(selected_outputs)[i]>>)]))
                        ELSE with_stream
    IN  [body |-> with_outputs, files |-> conv.files]

\* body['stream'] = stream and body['selectedOutputs'] = selected_outputs, each
\* when the argument is given.
SetControls(d, stream, selected_outputs) ==
    LET with_stream == IF ~IsNone(stream)
                       THEN DictSet(d, "stream",
                                    Leaf(<<IF Val(stream) THEN "true" ELSE "false">>))
                       ELSE d
    IN  IF ~IsNone(selected_outputs)
        THEN DictSet(with_stream, "selectedOutputs",
                     List([i \in 1..Len(Val(selected_outputs)) |->
                             Leaf(<<Val(selected_outputs)[i]>>)]))
        ELSE with_stream

\* A variant in which no statement creates an object: each result is stored in
\* the object it was computed from.
SameObject(from, fresh) == from

\* The object that holds the result of input_data.copy() and of the dict
\* comprehension of the encoder: a new one, not the object it was computed from.
NewObject(from, fresh) == fresh

\* The dict objects execute_workflow works on while it builds the body of an input
\* that is not None, by identity: "input" is the caller's dict, and `body` names
\* first the copy, then the dict the encoder returns, into which the control keys
\* are assigned.
BodyObjects(input, stream, selected_outputs, fs) ==
    LET copy == NewObject("input", "copy")
        copied == (copy :> input) @@ ("input" :> input)
        converted == NewObject(copy, "converted")
        encoded_to == (converted :> ConvertFilesToBase64(copied[copy], fs).value) @@ copied
    IN  [heap |-> [encoded_to EXCEPT ![converted] = SetControls(@, stream, selected_outputs)],
         body |-> converted]

\* The caller's input after execute_workflow has built its body.
InputAfterExecute(input, stream, selected_outputs, fs) ==
    IF IsNone(input) THEN None
    ELSE Some(BodyObjects(Val(input), stream, selected_outputs, fs).heap["input"])

----------------------------------------------------------------------------
(* The client and its callers *)

\* self.base_url: the default of __init__, which has no trailing slash to strip.
BaseUrl == "https://sim.ai"

\* The URLs of the endpoints, as the tuples of their pieces.
ExecuteUrl(workflow_id) == <<BaseUrl, "/api/workflows/", workflow_id, "/execute">>
StatusUrl(workflow_id) == <<BaseUrl, "/api/workflows/", workflow_id, "/status">>
JobUrl(task_id) == <<BaseUrl, "/api/jobs/", task_id>>
UsageUrl == <<BaseUrl, "/api/users/me/usage-limits">>

\* The workflow and the task that calls name.
WorkflowIds == {"wf-1", "wf-2"}
DefaultWorkflowId == "wf-1"
DefaultTaskId == "t1"

DefaultHeaders(key) ==
    ("X-API-Key" :> key) @@ ("Content-Type" :> "application/json")

\* Truth value of an Optional[bool] argument.
IsTrue(arg) == arg = Some(TRUE)

\* The request headers of execute_workflow: a copy of the session's default
\* headers, with the mode header added when async_execution is true.
BuildHeaders(defaults, async_execution) ==
    IF IsTrue(async_execution)
    THEN ("X-Execution-Mode" :> "async") @@ defaults
    ELSE defaults

\* A variant that adds the mode header to the session's own headers (no copy).
SessionHeadersShared(defaults, async_execution) ==
    IF IsTrue(async_execution)
    THEN ("X-Execution-Mode" :> "async") @@ defaults
    ELSE defaults

\* The session's default headers after execute_workflow has built its request
\* headers: the request headers are a copy, so the defaults stay as they were.
SessionHeadersAfter(defaults, async_execution) == defaults

OptBool == {None, Some(TRUE), Some(FALSE)}

\* The arguments callers give to execute_with_retry.
MaxRetriesArgs == (0 - 1)..MaxRetriesArg
InitialDelays == {1, 2}
MaxDelays == {3}
BackoffMultipliers == {2}

\* random.random() lies in [0, 1): here one of 0, 1/4, 1/2, 3/4, in quarters.
RandomQuarters == 0..3

IdleCall ==
    [pc |-> "idle", op |-> "none", outcome |-> NoOutcome,
     workflow_id |-> DefaultWorkflowId, async_execution |-> None,
     max_retries |-> 0, initial_delay |-> 0, max_delay |-> 0, backoff_multiplier |-> 0,
     stream |-> None, selected_outputs |-> None,
     attempt |-> 0, delay |-> 0, last_error |-> None,
     statuses |-> << >>, last_response |-> None, dispatched |-> NoOutcome,
     sleeps |-> 0, last_step |-> "none",
     wait_time |-> None, jitter |-> None]

\* The number of exchanges the call has made.
Dispatches(c) == Len(c.statuses)

CanExchange == ~IsNone(response)
NextResponse == Val(response)

\* The service's answer to the exchange after this one: one of `more`, or none.
Pending(more) == IF more = {} THEN {None} ELSE {Some(r) : r \in more}

\* The call record after one more exchange that ended with `out` (the wait and the
\* sleep recorded are those of the latest step only).
Exchanged(c, resp, out) ==
    [c EXCEPT !.statuses = Append(c.statuses, resp.status),
              !.last_response = Some(resp),
              !.dispatched = out,
              !.last_step = "dispatch",
              !.wait_time = None,
              !.jitter = None]

\* The control arguments of execute_workflow: stream and selected_outputs.
Controls(stream, selected_outputs) ==
    [stream |-> stream, selected_outputs |-> selected_outputs]
NoControls == Controls(None, None)

\* One exchange of execute_workflow: what it does to the client, to the file
\* objects of the input and to the request on the wire.
Dispatch(workflow_id, async_execution, controls, res, more) ==
    /\ rate_limit_info' = res.info
    /\ sent_url' = Some(ExecuteUrl(workflow_id))
    /\ session_headers' = SessionHeadersAfter(session_headers, async_execution)
    /\ sent' = BuildHeaders(session_headers, async_execution)
    /\ sent_async' = async_execution
    /\ earlier_async' = (earlier_async \/ (sent # << >> /\ IsTrue(sent_async)))
    /\ LET req == RequestBody(input_data, controls.stream, controls.selected_outputs, files)
       IN  /\ sent_body' = Some(req.body)
           /\ files' = req.files
    /\ input_data' = InputAfterExecute(input_data, controls.stream,
                                       controls.selected_outputs, files)
    /\ response' \in Pending(more)
    /\ UNCHANGED <<api_key, encoded>>

\* One exchange of a read endpoint (self._session.get(url)): the request carries
\* the session's default headers and no body.
SessionGet(url, more) ==
    /\ sent_url' = Some(url)
    /\ sent' = session_headers
    /\ sent_async' = None
    /\ earlier_async' = (earlier_async \/ (sent # << >> /\ IsTrue(sent_async)))
    /\ response' \in Pending(more)
    /\ UNCHANGED <<session_headers, api_key, input_data, files, encoded, sent_body>>

\* execute_workflow(workflow_id, input_data, timeout, stream, selected_outputs,
\* async_execution)
ExecuteWorkflow(t, more, controls) ==
    /\ call[t].pc = "idle"
    /\ CanExchange
    /\ \E async_execution \in OptBool, ctl \in controls :
         LET res == ExecuteWorkflowOn(rate_limit_info, NextResponse)
         IN  /\ Dispatch(DefaultWorkflowId, async_execution, ctl, res, more)
             /\ call' = [call EXCEPT ![t] =
                           [Exchanged(IdleCall, NextResponse, res.out)
                               EXCEPT !.op = "execute_workflow",
                                      !.async_execution = async_execution,
                                      !.stream = ctl.stream,
                                      !.selected_outputs = ctl.selected_outputs,
                                      !.outcome = res.out]]

\* get_job_status(task_id)
GetJobStatus(t, more) ==
    /\ call[t].pc = "idle"
    /\ CanExchange
    /\ LET res == GetJobStatusOn(rate_limit_info, NextResponse)
       IN  /\ rate_limit_info' = res.info
           /\ call' = [call EXCEPT ![t] =
                         [Exchanged(IdleCall, NextResponse, res.out)
                             EXCEPT !.op = "get_job_status", !.outcome = res.out]]
    /\ SessionGet(JobUrl(DefaultTaskId), more)

\* get_usage_limits()
GetUsageLimits(t, more) ==
    /\ call[t].pc = "idle"
    /\ CanExchange
    /\ LET res == GetUsageLimitsOn(rate_limit_info, NextResponse)
       IN  /\ rate_limit_info' = res.info
           /\ call' = [call EXCEPT ![t] =
                         [Exchanged(IdleCall, NextResponse, res.out)
                             EXCEPT !.op = "get_usage_limits", !.outcome = res.out]]
    /\ SessionGet(UsageUrl, more)

\* get_workflow_status(workflow_id)
GetWorkflowStatus(t, more) ==
    /\ call[t].pc = "idle"
    /\ CanExchange
    /\ LET res == GetWorkflowStatusOn(rate_limit_info, NextResponse)
       IN  /\ rate_limit_info' = res.info
           /\ call' = [call EXCEPT ![t] =
                         [Exchanged(IdleCall, NextResponse, res.out)
                             EXCEPT !.op = "get_workflow_status", !.outcome = res.out]]
    /\ SessionGet(StatusUrl(DefaultWorkflowId), more)

\* validate_workflow(workflow_id): the call record keeps the outcome of the inner
\* get_workflow_status call as `dispatched`.
ValidateWorkflow(t, more) ==
    /\ call[t].pc = "idle"
    /\ CanExchange
    /\ LET res == GetWorkflowStatusOn(rate_limit_info, NextResponse)
       IN  /\ rate_limit_info' = res.info
           /\ call' = [call EXCEPT ![t] =
                         [Exchanged(IdleCall, NextResponse, res.out)
                             EXCEPT !.op = "validate_workflow",
                                    !.outcome = ValidateResult(res.out)]]
    /\ SessionGet(StatusUrl(DefaultWorkflowId), more)

\* A variant that leaves the session's default headers as they are.
SessionHeadersKeyUnchanged(headers, key) == headers

\* self._session.headers.update({'X-API-Key': api_key})
SessionHeadersWithKey(headers, key) ==
    [h \in DOMAIN headers \cup {"X-API-Key"} |->
        IF h = "X-API-Key" THEN key ELSE headers[h]]

\* set_api_key(api_key)
SetApiKey(t, key) ==
    /\ call[t].pc = "idle"
    /\ api_key' = key
    /\ session_headers' = SessionHeadersWithKey(session_headers, key)
    /\ UNCHANGED <<rate_limit_info, response, sent, sent_async, earlier_async, call,
                   input_data, files, encoded, sent_body, sent_url>>

----------------------------------------------------------------------------
(* execute_with_retry *)

\* raise last_error or SimStudioError('Max retries exceeded', 'MAX_RETRIES_EXCEEDED')
RaiseLastError(last_error) ==
    IF ~IsNone(last_error) THEN Val(last_error)
    ELSE SimStudioError(<<"Max retries exceeded">>, Some("MAX_RETRIES_EXCEEDED"), None)

\* Does the error go to the retry branch? (`if e.code != 'RATE_LIMIT_EXCEEDED': raise`)
IsRetryable(out) == HasCode(out, "RATE_LIMIT_EXCEEDED")

\* A variant without the check of the last attempt.
IsLastAttemptNever(attempt, max_retries) == FALSE

\* Is this loop iteration the last one? (`if attempt == max_retries: break`)
IsLastAttempt(attempt, max_retries) == attempt = max_retries

\* Is the loop `for attempt in range(max_retries + 1)` entered at all?
LoopRuns(max_retries) == max_retries + 1 > 0

\* The call begins: last_error = None, delay = initial_delay, and the loop is
\* entered, or skipped when range(max_retries + 1) is empty.
RetryBegin(t) ==
    /\ call[t].pc = "idle"
    /\ \E async_execution \in OptBool, max_retries \in MaxRetriesArgs,
          initial_delay \in InitialDelays, max_delay \in MaxDelays,
          backoff_multiplier \in BackoffMultipliers :
         call' = [call EXCEPT ![t] =
                    [IdleCall EXCEPT !.op = "execute_with_retry",
                                     !.async_execution = async_execution,
                                     !.max_retries = max_retries,
                                     !.initial_delay = initial_delay,
                                     !.max_delay = max_delay,
                                     !.backoff_multiplier = backoff_multiplier,
                                     !.delay = initial_delay,
                                     !.pc = IF LoopRuns(max_retries) THEN "attempt" ELSE "idle",
                                     !.outcome = IF LoopRuns(max_retries) THEN NoOutcome
                                                 ELSE RaiseLastError(None)]]
    /\ UNCHANGED <<rate_limit_info, session_headers, response, sent, sent_async,
                   earlier_async, api_key, input_data, files, encoded, sent_body,
                   sent_url>>

\* A variant that retries after every SimStudioError, whatever its code.
AfterDispatchRetryAnyError(c, out) ==
    IF ~IsSimStudioError(out)
    THEN [c EXCEPT !.pc = "idle", !.outcome = out]
    ELSE IF IsLastAttempt(c.attempt, c.max_retries)
    THEN [c EXCEPT !.pc = "idle", !.last_error = Some(out),
                   !.outcome = RaiseLastError(Some(out))]
    ELSE [c EXCEPT !.pc = "backoff", !.last_error = Some(out)]

\* A variant that keeps the result of a successful dispatch but goes on looping
\* while attempts are left.
AfterDispatchKeepsLooping(c, out) ==
    IF out.kind = "returned" /\ ~IsLastAttempt(c.attempt, c.max_retries)
    THEN [c EXCEPT !.pc = "backoff", !.outcome = out]
    ELSE IF ~IsRetryable(out)
    THEN [c EXCEPT !.pc = "idle", !.outcome = out]
    ELSE IF IsLastAttempt(c.attempt, c.max_retries)
    THEN [c EXCEPT !.pc = "idle", !.last_error = Some(out),
                   !.outcome = RaiseLastError(Some(out))]
    ELSE [c EXCEPT !.pc = "backoff", !.last_error = Some(out)]

\* What the loop body does with the outcome of its dispatch: a result is returned
\* and an error that is not retryable is re-raised, both ending the call; a
\* retryable error is recorded and, unless this was the last attempt, the call goes
\* on to compute its wait.
AfterDispatch(c, out) ==
    IF ~IsRetryable(out)
    THEN [c EXCEPT !.pc = "idle", !.outcome = out]
    ELSE IF IsLastAttempt(c.attempt, c.max_retries)
    THEN [c EXCEPT !.pc = "idle", !.last_error = Some(out),
                   !.outcome = RaiseLastError(Some(out))]
    ELSE [c EXCEPT !.pc = "backoff", !.last_error = Some(out)]

\* A variant that passes async_execution to the first attempt only.
AttemptAsyncFirstOnly(c) == IF c.attempt = 0 THEN c.async_execution ELSE None

\* The async_execution argument each attempt passes to execute_workflow.
AttemptAsync(c) == c.async_execution

\* One iteration of the loop up to the sleep: the dispatch, and what the except
\* clause decides about its error.
RetryAttempt(t, more) ==
    /\ call[t].pc = "attempt"
    /\ CanExchange
    /\ LET c == call[t]
           res == ExecuteWorkflowOn(rate_limit_info, NextResponse)
       IN  /\ Dispatch(c.workflow_id, AttemptAsync(c),
                        Controls(c.stream, c.selected_outputs), res, more)
           /\ call' = [call EXCEPT ![t] =
                         AfterDispatch(Exchanged(c, NextResponse, res.out), res.out)]

\* A variant that never uses the tracker's hint.
WaitTimeBackoffOnly(info, delay, max_delay) ==
    IF delay < max_delay THEN delay ELSE max_delay

\* self._rate_limit_info.retry_after / 1000 if self._rate_limit_info and
\* self._rate_limit_info.retry_after else min(delay, max_delay)
WaitTime(info, delay, max_delay) ==
    IF ~IsNone(info) /\ ~IsNone(Val(info).retry_after) /\ Val(Val(info).retry_after) # 0
    THEN Val(Val(info).retry_after) \div 1000
    ELSE IF delay < max_delay THEN delay ELSE max_delay

\* wait_time * (0.75 + random.random() * 0.5), in eighths of a second.
Jitter(wait_time, quarters) == wait_time * (6 + quarters)

\* time.sleep(secs) raises ValueError for a negative length.
SleepRaises(jitter) == jitter < 0

\* A variant that caps the running delay by max_delay.
AfterSleepCapsDelay(c) ==
    LET grown == c.delay * c.backoff_multiplier
        n == [c EXCEPT !.sleeps = c.sleeps + 1,
                       !.last_step = "sleep",
                       !.delay = IF grown < c.max_delay THEN grown ELSE c.max_delay]
    IN  IF c.attempt + 1 < c.max_retries + 1
        THEN [n EXCEPT !.pc = "attempt", !.attempt = c.attempt + 1]
        ELSE [n EXCEPT !.pc = "idle", !.outcome = RaiseLastError(c.last_error)]

\* The call after a completed sleep: the delay grows and the loop goes to its next
\* attempt, or runs out of range(max_retries + 1) and raises the recorded error.
AfterSleep(c) ==
    LET n == [c EXCEPT !.sleeps = c.sleeps + 1,
                       !.last_step = "sleep",
                       !.delay = c.delay * c.backoff_multiplier]
    IN  IF c.attempt + 1 < c.max_retries + 1
        THEN [n EXCEPT !.pc = "attempt", !.attempt = c.attempt + 1]
        ELSE [n EXCEPT !.pc = "idle", !.outcome = RaiseLastError(c.last_error)]

\* The rest of the iteration: the wait is computed and slept, the delay grows.
RetrySleep(t) ==
    /\ call[t].pc = "backoff"
    /\ \E quarters \in RandomQuarters :
         LET c == call[t]
             wait_time == WaitTime(rate_limit_info, c.delay, c.max_delay)
             jitter == Jitter(wait_time, quarters)
             w == [c EXCEPT !.wait_time = Some(wait_time), !.jitter = Some(jitter)]
         IN  call' = [call EXCEPT ![t] =
                IF SleepRaises(jitter)
                THEN [w EXCEPT !.pc = "idle", !.outcome = Exception("ValueError")]
                ELSE AfterSleep(w)]
    /\ UNCHANGED <<rate_limit_info, session_headers, response, sent, sent_async,
                   earlier_async, api_key, input_data, files, encoded, sent_body,
                   sent_url>>

----------------------------------------------------------------------------
(* Specifications *)

\* The responses a sequence of calls meets.
R429Hint == Response(429, WithRetryAfter(RateHeaders("9", "0", "7"), "2"), BodyEmpty)
R429Bare == Response(429, NoHeaders, BodyEmpty)
R429Date == Response(429, WithRetryAfter(RateHeaders("9", "0", "7"), HttpDate), BodyEmpty)
R429Negative == Response(429, WithRetryAfter(RateHeaders("9", "0", "7"), "-1"), BodyEmpty)
R429Zero == Response(429, WithRetryAfter(RateHeaders("9", "0", "7"), "0"), BodyEmpty)
R200Ok == Response(200, NoHeaders, BodySyncOk)
R200Limits == Response(200, RateHeaders("9", "4", "7"), BodySyncFailed)
R200NoSuccess == Response(200, NoHeaders, BodyNoSuccess)
R202Task == Response(202, NoHeaders, BodyTask)
R500 == Response(500, NoHeaders, BodyServerError)
R503RateCode == Response(503, NoHeaders, BodyRateCode)

ScriptResponses ==
    {R429Hint, R429Bare, R429Date, R429Negative, R429Zero, R200Ok, R500,
     R503RateCode, TransportTimeout}

\* A fresh client (the state after __init__).
FreshClient ==
    /\ api_key = "key-1"
    /\ rate_limit_info = None
    /\ session_headers = DefaultHeaders(api_key)
    /\ sent = << >>
    /\ sent_async = None
    /\ sent_body = None
    /\ sent_url = None
    /\ earlier_async = FALSE
    /\ call = [t \in Threads |-> IdleCall]

\* The caller passes no input: every request body is built from None.
NoInput ==
    /\ input_data = None
    /\ files = << >>
    /\ encoded = << >>

Init ==
    /\ FreshClient
    /\ NoInput
    /\ response \in Pending(ScriptResponses)

Next ==
    \E t \in Sequential :
        \/ ExecuteWorkflow(t, ScriptResponses, {NoControls})
        \/ GetJobStatus(t, ScriptResponses)
        \/ GetUsageLimits(t, ScriptResponses)
        \/ RetryBegin(t)
        \/ RetryAttempt(t, ScriptResponses)
        \/ RetrySleep(t)

Spec == Init /\ [][Next]_vars

\* One exchange on each endpoint, over every response of DispatchResponses, on a
\* client that has made one earlier exchange.
DispatchStatuses == {200, 202, 404, 429}
DispatchHeaders == HeaderSets({"9"}, {"4"}, {"7", IsoTime}, {"2", HttpDate})
DispatchBodies ==
    {BodySyncOk, BodySyncFailed, BodySyncFull, BodyNoSuccess, BodyEmpty, BodyTask,
     BodyTaskOnly, BodyTaskFull, BodyJobNotFound, BodyServerError, BodyCodeOnly,
     BodyRateCode, JsonArray, NotJson}
DispatchResponses ==
    {Response(st, h, b) : st \in DispatchStatuses, h \in DispatchHeaders,
                          b \in DispatchBodies}
        \cup {TransportTimeout, TransportError}

PriorResponses == {R200Ok, R200Limits, R429Hint, R429Zero}

NoCallYet == \A t \in Threads : call[t].op = "none"

InitDispatch ==
    /\ FreshClient
    /\ NoInput
    /\ response \in Pending(PriorResponses)

NextDispatch ==
    \E t \in Sequential :
        LET more == IF NoCallYet THEN DispatchResponses ELSE {}
        IN  \/ ExecuteWorkflow(t, more, {NoControls})
            \/ GetJobStatus(t, more)
            \/ GetUsageLimits(t, more)
            \/ GetWorkflowStatus(t, more)

SpecDispatch == InitDispatch /\ [][NextDispatch]_vars

\* The workflow-status endpoint and validate_workflow, over every response of
\* StatusResponses, on a client that may have made one earlier status call.
StatusStatuses == {200, 404, 500}
StatusBodies == {BodyDeployed, BodyNotDeployed, BodyEmpty, BodyJobNotFound, JsonArray, NotJson}
StatusResponses ==
    {Response(st, h, b) : st \in StatusStatuses,
                          h \in {NoHeaders, RateHeaders("9", "4", "7")},
                          b \in StatusBodies}
        \cup {TransportTimeout, TransportError}

InitStatus ==
    /\ FreshClient
    /\ NoInput
    /\ response \in Pending(StatusResponses)

NextStatus ==
    \E t \in Sequential :
        LET more == IF NoCallYet THEN StatusResponses ELSE {}
        IN  \/ GetWorkflowStatus(t, more)
            \/ ValidateWorkflow(t, more)

SpecStatus == InitStatus /\ [][NextStatus]_vars

\* The caller runs the encoder on its input value (_convert_files_to_base64).
ConvertInput ==
    /\ ~IsNone(input_data)
    /\ Len(encoded) < MaxEncodes
    /\ LET r == ConvertFilesToBase64(Val(input_data), files)
       IN  /\ encoded' = Append(encoded, r.value)
           /\ files' = r.files
    /\ UNCHANGED <<rate_limit_info, session_headers, response, sent, sent_async,
                   earlier_async, call, api_key, input_data, sent_body, sent_url>>

\* Calls with an input value: every value tree up to the bounds, over scalars and
\* two file-like objects, with every combination of the control arguments.
SeqsUpTo(S, n) == UNION {[1..k -> S] : k \in 0..n}
Range(seq) == {seq[i] : i \in DOMAIN seq}
InputKeys == {"a", "stream"}
KeySeqs == {k \in SeqsUpTo(InputKeys, MaxLen) : Cardinality(Range(k)) = Len(k)}
LeafValues == {Leaf(<<"a">>), FileObj("f1"), FileObj("f2")}

\* Lists and dicts whose first item is one of `first` and whose other items are
\* leaves.
Containers(first) ==
    LET items == {<< >>} \cup {<<x>> \o rest : x \in first,
                               rest \in SeqsUpTo(LeafValues, MaxLen - 1)}
    IN  {List(i) : i \in items}
            \cup UNION {{Dict(k, i) : i \in {j \in items : Len(j) = Len(k)}}
                        : k \in KeySeqs}

ShallowValues == LeafValues \cup Containers(LeafValues)
InputValues == ShallowValues \cup Containers(ShallowValues)

\* f1 is an in-memory buffer (tell and seek, no name, no content_type) that has been
\* read up to position 1; f2 is an upload with a path name and a content type that lacks
\* tell, seek or both.
InputFiles ==
    {[id \in {"f1", "f2"} |->
        IF id = "f1"
        THEN FileObject(<<77, 97, 110, 255>>, 1, TRUE, TRUE, None, None)
        ELSE FileObject(<<104, 105>>, 0, caps[1], caps[2],
                        Some(<<"uploads", "a.txt">>), Some("text/plain"))]
     : caps \in {<<FALSE, FALSE>>, <<TRUE, FALSE>>, <<FALSE, TRUE>>}}

StreamArgs == OptBool
SelectedOutputsArgs == {None, Some(<< >>), Some(<<"agent1.content">>)}
ControlArgs == {Controls(st, so) : st \in StreamArgs, so \in SelectedOutputsArgs}

\* The call succeeds, or fails on an error response.
PayloadResponses == {R200Ok, R500}

InitPayload ==
    /\ FreshClient
    /\ input_data \in {None} \cup {Some(v) : v \in InputValues}
    /\ files \in InputFiles
    /\ encoded = << >>
    /\ response \in Pending(PayloadResponses)

\* execute_workflow takes a dict (or no input); the encoder takes any value.
NextPayload ==
    \/ ConvertInput
    \/ \E t \in Sequential :
         /\ IF IsNone(input_data) THEN TRUE ELSE Val(input_data).t = "dict"
         /\ ExecuteWorkflow(t, {}, ControlArgs)

SpecPayload == InitPayload /\ [][NextPayload]_vars

\* Calls on every endpoint, with the API key changed between them.
ApiKeys == {"key-1", "key-2"}
KeyResponses == {R200Ok, R500}

InitKeys ==
    /\ FreshClient
    /\ NoInput
    /\ response \in Pending(KeyResponses)

NextKeys ==
    \E t \in Sequential :
        \/ \E key \in ApiKeys : SetApiKey(t, key)
        \/ ExecuteWorkflow(t, KeyResponses, {NoControls})
        \/ GetWorkflowStatus(t, KeyResponses)
        \/ GetJobStatus(t, KeyResponses)
        \/ GetUsageLimits(t, KeyResponses)

SpecKeys == InitKeys /\ [][NextKeys]_vars

\* Two threads that have each entered execute_with_retry on the one client, their
\* steps interleaved in every order; every response is a 429 that carries the
\* rate-limit headers, with a retry-after hint of 2 or of 0.
ConcurrentResponses == {R429Hint, R429Zero}

EnteredCall(initial_delay) ==
    [IdleCall EXCEPT !.op = "execute_with_retry",
                     !.max_retries = MaxRetriesArg,
                     !.initial_delay = initial_delay,
                     !.max_delay = 3,
                     !.backoff_multiplier = 2,
                     !.delay = initial_delay,
                     !.pc = "attempt"]

InitConcurrent ==
    /\ api_key = "key-1"
    /\ rate_limit_info = None
    /\ session_headers = DefaultHeaders(api_key)
    /\ sent = << >>
    /\ sent_async = None
    /\ sent_body = None
    /\ sent_url = None
    /\ earlier_async = FALSE
    /\ NoInput
    /\ call \in [Threads -> {EnteredCall(d) : d \in InitialDelays}]
    /\ response \in Pending(ConcurrentResponses)

NextConcurrent ==
    \E t \in Threads :
        \/ RetryAttempt(t, ConcurrentResponses)
        \/ RetrySleep(t)

SpecConcurrent == InitConcurrent /\ [][NextConcurrent]_vars

\* One call of execute_with_retry with an input value: a dict with one key over
\* every shallow value, on any workflow and in either mode; a response is a 429 or
\* a success.
RetryInputs == {None} \cup {Some(Dict(<<"a">>, <<x>>)) : x \in ShallowValues}
RetryPayloadResponses == {R429Hint, R429Bare, R200Ok}

EnteredCallWith(workflow_id, async_execution) ==
    [IdleCall EXCEPT !.op = "execute_with_retry",
                     !.workflow_id = workflow_id,
                     !.async_execution = async_execution,
                     !.max_retries = MaxRetriesArg,
                     !.initial_delay = 1,
                     !.max_delay = 3,
                     !.backoff_multiplier = 2,
                     !.delay = 1,
                     !.pc = "attempt"]

InitRetryPayload ==
    /\ api_key = "key-1"
    /\ rate_limit_info = None
    /\ session_headers = DefaultHeaders(api_key)
    /\ sent = << >>
    /\ sent_async = None
    /\ sent_body = None
    /\ sent_url = None
    /\ earlier_async = FALSE
    /\ input_data \in RetryInputs
    /\ files \in InputFiles
    /\ encoded = << >>
    /\ \E workflow_id \in WorkflowIds, async_execution \in OptBool :
         call = [t \in Threads |-> IF t \in Sequential
                                   THEN EnteredCallWith(workflow_id, async_execution)
                                   ELSE IdleCall]
    /\ response \in Pending(RetryPayloadResponses)

NextRetryPayload ==
    \E t \in Sequential :
        \/ RetryAttempt(t, RetryPayloadResponses)
        \/ RetrySleep(t)

SpecRetryPayload == InitRetryPayload /\ [][NextRetryPayload]_vars

----------------------------------------------------------------------------
(* Properties of execute_with_retry *)

RetryCall(c) == c.op = "execute_with_retry"
Finished(c) == c.op # "none" /\ c.pc = "idle"
AllRateLimited(c) == \A i \in 1..Len(c.statuses) : c.statuses[i] = 429

\* The number of dispatches of a call with max_retries >= 0 never exceeds
\* max_retries + 1.
AtMostDispatches ==
    \A t \in Threads :
        LET c == call[t]
        IN  RetryCall(c) /\ c.max_retries >= 0 => Dispatches(c) <= c.max_retries + 1

\* C1: execute_with_retry with max_retries = N >= 0 makes at most N+1 dispatches,
\* and a call that has met nothing but 429 responses ends only after exactly N+1
\* dispatches, with an error of code RATE_LIMIT_EXCEEDED and no result.
C1_RetryBound ==
    /\ AtMostDispatches
    /\ \A t \in Threads :
        LET c == call[t]
        IN  RetryCall(c) /\ c.max_retries >= 0 /\ Finished(c) /\ AllRateLimited(c)
            => /\ Dispatches(c) = c.max_retries + 1
               /\ HasCode(c.outcome, "RATE_LIMIT_EXCEEDED")

\* C2: in execute_with_retry, a dispatch that fails with a SimStudioError whose code
\* is not RATE_LIMIT_EXCEEDED ends the call at once with that error: the failed
\* dispatch is the last step of the call, no dispatch and no sleep follows it.
C2_NonRetryableFailsAtOnce ==
    \A t \in Threads :
        LET c == call[t]
        IN  RetryCall(c) /\ IsSimStudioError(c.dispatched)
                /\ ~HasCode(c.dispatched, "RATE_LIMIT_EXCEEDED")
            => /\ c.pc = "idle"
               /\ c.last_step = "dispatch"
               /\ c.outcome = c.dispatched

\* A non-retryable error met on a later attempt, with retries still left.
C2_Witness ==
    \E t \in Threads :
        LET c == call[t]
        IN  /\ RetryCall(c) /\ IsSimStudioError(c.dispatched)
            /\ ~HasCode(c.dispatched, "RATE_LIMIT_EXCEEDED")
            /\ c.attempt >= 1 /\ c.attempt < c.max_retries
            /\ c.pc = "idle"

\* C3: in execute_with_retry, when the dispatch after k rate-limited ones succeeds,
\* the call ends at once and returns the result of that dispatch: it has made
\* exactly k+1 dispatches and k sleeps, and the successful dispatch is its last step.
C3_SuccessReturnsAtOnce ==
    \A t \in Threads :
        LET c == call[t]
        IN  RetryCall(c) /\ c.dispatched.kind = "returned"
            => /\ c.pc = "idle"
               /\ c.last_step = "dispatch"
               /\ c.outcome = c.dispatched
               /\ c.outcome = ResultFromResponse(Val(c.last_response))
               /\ Dispatches(c) = c.attempt + 1
               /\ c.sleeps = c.attempt

\* A success after two rate-limited dispatches.
C3_Witness ==
    \E t \in Threads :
        LET c == call[t]
        IN  /\ RetryCall(c) /\ c.dispatched.kind = "returned"
            /\ c.attempt = 2 /\ Dispatches(c) = 3
            /\ c.statuses[1] = 429 /\ c.statuses[2] = 429
            /\ c.outcome.kind = "returned"

\* C4 as stated: when a call of execute_with_retry has ended, the number of its
\* sleeps is the number of its dispatches minus one.
C4_SleepsOneLessThanDispatches ==
    \A t \in Threads :
        LET c == call[t]
        IN  RetryCall(c) /\ Finished(c) => c.sleeps = Dispatches(c) - 1

\* C4 amended: in a call of execute_with_retry no sleep precedes the first dispatch,
\* exactly one completed sleep lies between two consecutive dispatches and none
\* follows the last one, so a call that has made at least one dispatch ends with one
\* sleep less than dispatches; a call that makes no dispatch makes no sleep.
C4_OneSleepBetweenDispatches ==
    \A t \in Threads :
        LET c == call[t]
        IN  RetryCall(c)
            => /\ c.pc = "attempt"
                    => /\ c.sleeps = Dispatches(c)
                       /\ IF Dispatches(c) = 0 THEN c.last_step = "none"
                          ELSE c.last_step = "sleep"
               /\ c.pc = "backoff"
                    => c.sleeps = Dispatches(c) - 1 /\ c.last_step = "dispatch"
               /\ c.pc = "idle"
                    => IF Dispatches(c) = 0 THEN c.sleeps = 0
                       ELSE c.sleeps = Dispatches(c) - 1 /\ c.last_step = "dispatch"

\* A call that ended on a rate limit at its last allowed attempt, after three
\* dispatches and two sleeps.
C4_Witness ==
    \E t \in Threads :
        LET c == call[t]
        IN  /\ RetryCall(c) /\ Finished(c)
            /\ Dispatches(c) = 3 /\ c.sleeps = 2
            /\ HasCode(c.outcome, "RATE_LIMIT_EXCEEDED")

----------------------------------------------------------------------------
(* Properties of execute_workflow *)

HasModeHeader(headers) ==
    "X-Execution-Mode" \in DOMAIN headers /\ headers["X-Execution-Mode"] = "async"

\* C7: the request of an execute exchange carries X-Execution-Mode: async exactly
\* when the call's async_execution argument is true, and the header never enters
\* the session's default headers, so a later call does not inherit it.
C7_ModeHeaderIffAsync ==
    /\ "X-Execution-Mode" \notin DOMAIN session_headers
    /\ sent # << >>
        => /\ HasModeHeader(sent) <=> IsTrue(sent_async)
           /\ ~IsTrue(sent_async) => "X-Execution-Mode" \notin DOMAIN sent

\* A request without the header, sent after an asynchronous one on the same client.
C7_Witness ==
    /\ earlier_async
    /\ sent # << >>
    /\ sent_async = Some(FALSE)
    /\ "X-Execution-Mode" \notin DOMAIN sent

\* C8: execute_workflow fails with a SimStudioError of code RATE_LIMIT_EXCEEDED and
\* status 429 for every response of status 429, whatever its headers and body.
C8_Every429IsRateLimitError ==
    \A t \in Threads :
        LET c == call[t]
        IN  c.op = "execute_workflow" /\ c.statuses = <<429>>
            => /\ HasCode(c.outcome, "RATE_LIMIT_EXCEEDED")
               /\ c.outcome.value.status = Some(429)

\* The latest response thread t's call has received, when the transport delivered one.
Received(c) == ~IsNone(c.last_response) /\ Val(c.last_response).transport = "ok"

\* C5: execute_workflow returns an AsyncExecutionResult for every response of status
\* 202 whose body holds a taskId, whatever the async_execution argument: success
\* defaults to true, status to "queued", createdAt to "" and links to {}.
C5_AcceptedTaskIsAsyncResult ==
    \A t \in Threads :
        LET c == call[t]
            r == Val(c.last_response)
        IN  c.op = "execute_workflow" /\ Received(c) /\ r.status = 202
                /\ r.body.json = "object" /\ "taskId" \in DOMAIN r.body.obj
            => /\ c.outcome.kind = "returned"
               /\ c.outcome.type = "AsyncExecutionResult"
               /\ c.outcome.value =
                    [success |-> GetOr(r.body.obj, "success", "true"),
                     task_id |-> r.body.obj["taskId"],
                     status |-> GetOr(r.body.obj, "status", "queued"),
                     created_at |-> GetOr(r.body.obj, "createdAt", ""),
                     links |-> GetOr(r.body.obj, "links", "{}")]

\* C6: execute_workflow returns a WorkflowExecutionResult for every successful
\* response that is not a 202 with a taskId: success is the body's success value,
\* every other field the body's value when present and None otherwise.
C6_OtherSuccessIsSyncResult ==
    \A t \in Threads :
        LET c == call[t]
            r == Val(c.last_response)
        IN  c.op = "execute_workflow" /\ Received(c) /\ Ok(r.status)
                /\ ~(r.status = 202 /\ "taskId" \in DOMAIN r.body.obj)
            => /\ c.outcome.kind = "returned"
               /\ c.outcome.type = "WorkflowExecutionResult"
               /\ "success" \in DOMAIN r.body.obj
               /\ c.outcome.value =
                    [success |-> r.body.obj["success"],
                     output |-> Get(r.body.obj, "output"),
                     error |-> Get(r.body.obj, "error"),
                     logs |-> Get(r.body.obj, "logs"),
                     metadata |-> Get(r.body.obj, "metadata"),
                     trace_spans |-> Get(r.body.obj, "traceSpans"),
                     total_duration |-> Get(r.body.obj, "totalDuration")]

\* C9: when execute_workflow receives a 429 response that carries retry-after: s,
\* the message of the raised error states s * 1000 ms.
C9_MessageStatesRetryAfter ==
    \A t \in Threads :
        LET c == call[t]
            r == Val(c.last_response)
        IN  c.op = "execute_workflow" /\ Received(c) /\ r.status = 429
                /\ "retry-after" \in DOMAIN r.headers /\ IntParses(r.headers["retry-after"])
            => /\ IsSimStudioError(c.outcome)
               /\ c.outcome.value.message =
                    <<"Rate limit exceeded. Retry after ",
                      StrOfInt(IntOf(r.headers["retry-after"]) * 1000), "ms">>

\* C10: for every response of an error status other than 429 whose body is a JSON
\* object, execute_workflow, get_job_status and get_usage_limits fail with a
\* SimStudioError whose status is the HTTP status, whose code is the body's code
\* (None without one) and whose message is the body's error (the synthesized
\* "HTTP <status>: <reason>" without one).
C10_ErrorBodyBecomesError ==
    \A t \in Threads :
        LET c == call[t]
            r == Val(c.last_response)
        IN  c.op \in {"execute_workflow", "get_job_status", "get_usage_limits"}
                /\ Received(c) /\ ~Ok(r.status) /\ r.status # 429
                /\ r.body.json = "object"
            => /\ IsSimStudioError(c.outcome)
               /\ c.outcome.value.status = Some(r.status)
               /\ c.outcome.value.code = Get(r.body.obj, "code")
               /\ c.outcome.value.message =
                    IF "error" \in DOMAIN r.body.obj THEN <<r.body.obj["error"]>>
                    ELSE <<"HTTP ", StrOfInt(r.status), ": ", Reason(r.status)>>

\* C11: whatever the exchange of execute_workflow brings (a response of any status
\* with any headers and body, or a transport failure), the call returns a
\* WorkflowExecutionResult or an AsyncExecutionResult or raises a SimStudioError;
\* no other kind of exception leaves it.
C11_EveryFailureIsSimStudioError ==
    \A t \in Threads :
        LET c == call[t]
        IN  c.op = "execute_workflow" /\ ~IsNone(c.last_response)
            => \/ /\ c.outcome.kind = "returned"
                  /\ c.outcome.type \in {"WorkflowExecutionResult", "AsyncExecutionResult"}
               \/ IsSimStudioError(c.outcome)

\* C12: when a call of execute_with_retry that has made a dispatch ends with an
\* error, that error is the one its last dispatch raised, with the same message,
\* code and status.
C12_SurfacesLastDispatchError ==
    \A t \in Threads :
        LET c == call[t]
        IN  RetryCall(c) /\ Finished(c) /\ Dispatches(c) >= 1 /\ c.outcome.kind = "raised"
            => c.dispatched.kind = "raised" /\ c.outcome = c.dispatched

----------------------------------------------------------------------------
(* Properties of validate_workflow *)

\* C21: validate_workflow never raises a SimStudioError: when its
\* get_workflow_status call returns a status it returns the isDeployed value of the
\* response (False when the field is missing), and when that call fails with a
\* SimStudioError (an error status, a body that is not JSON, a transport failure)
\* it returns False.
C21_ValidateNeverRaisesClientError ==
    \A t \in Sequential :
        LET c == call[t]
        IN  c.op = "validate_workflow"
            => /\ ~IsSimStudioError(c.outcome)
               /\ c.dispatched.kind = "returned"
                    => c.outcome =
                         Returned("bool", GetOr(Val(c.last_response).body.obj,
                                                "isDeployed", "false"))
               /\ IsSimStudioError(c.dispatched)
                    => c.outcome = Returned("bool", "false")

\* validate_workflow has returned False after a 404 whose error the status call
\* raised as a SimStudioError.
C21_Witness ==
    \E t \in Sequential :
        LET c == call[t]
        IN  /\ c.op = "validate_workflow"
            /\ c.statuses = <<404>>
            /\ HasCode(c.dispatched, "JOB_NOT_FOUND")
            /\ c.outcome = Returned("bool", "false")

----------------------------------------------------------------------------
(* Properties of the rate-limit tracker *)

TrackerHeaders == {"x-ratelimit-limit", "x-ratelimit-remaining", "x-ratelimit-reset"}

\* Does the header set carry one of the three rate-limit headers?
CarriesRateLimit(headers) == DOMAIN headers \cap TrackerHeaders # {}

\* The integer a header gives: its value when present, 0 when absent.
HeaderIntOrZero(headers, name) ==
    IF name \in DOMAIN headers THEN IntOf(headers[name]) ELSE 0

\* The snapshot the claim derives from one response's headers.
SnapshotOf(headers) ==
    [limit |-> HeaderIntOrZero(headers, "x-ratelimit-limit"),
     remaining |-> HeaderIntOrZero(headers, "x-ratelimit-remaining"),
     reset |-> HeaderIntOrZero(headers, "x-ratelimit-reset"),
     retry_after |-> IF "retry-after" \in DOMAIN headers
                     THEN Some(IntOf(headers["retry-after"]) * 1000)
                     ELSE None]

\* The snapshot is the one derived from these headers alone.
IsSnapshotOf(info, headers) ==
    /\ \A n \in DOMAIN headers : IntParses(headers[n])
    /\ info = Some(SnapshotOf(headers))

\* The exchange this step makes on an endpoint that observes the headers, if any.
ObservedBy(t) ==
    /\ ~IsNone(response)
    /\ Val(response).transport = "ok"
    /\ call'[t].op \in {"execute_workflow", "get_job_status", "get_usage_limits",
                        "execute_with_retry"}
    /\ call'[t].last_step = "dispatch"
    /\ call'[t].last_response = response

\* C13: one observation of a response's headers: with one of x-ratelimit-limit,
\* x-ratelimit-remaining, x-ratelimit-reset present the snapshot becomes the one
\* derived from these headers alone (integer values, 0 for an absent header,
\* retry_after the retry-after seconds times 1000, or None without that header);
\* with none of the three present the snapshot stays exactly as it was.
C13_ObservationReplacesWholesale ==
    [][\A t \in Sequential :
          ObservedBy(t)
          => IF CarriesRateLimit(Val(response).headers)
             THEN IsSnapshotOf(rate_limit_info', Val(response).headers)
             ELSE rate_limit_info' = rate_limit_info]_vars

\* The exchange this step makes on any endpoint, if the transport delivers a response.
ReceivedBy(t) ==
    /\ ~IsNone(response)
    /\ Val(response).transport = "ok"
    /\ call'[t].op # "none"
    /\ call'[t].last_step = "dispatch"
    /\ call'[t].last_response = response

\* C14: get_rate_limit_info() returns None until a response carrying one of the
\* three rate-limit headers has been received, and from then on the snapshot derived
\* from the most recent such response alone: every response that carries one makes
\* the snapshot the one derived from it, and nothing else changes the snapshot.
C14_SnapshotIsOfLatestLimitedResponse ==
    /\ (\A t \in Threads : call[t].op = "none") => GetRateLimitInfo = None
    /\ [][\A t \in Sequential :
            IF ReceivedBy(t) /\ CarriesRateLimit(Val(response).headers)
            THEN IsSnapshotOf(GetRateLimitInfo', Val(response).headers)
            ELSE GetRateLimitInfo' = GetRateLimitInfo]_vars

\* C15: after an exchange on any of the four endpoints (execute workflow, workflow
\* status, job status, usage limits) whose response carries one of the rate-limit
\* headers, the snapshot is the one derived from that response.
C15_EveryEndpointObserves ==
    \A t \in Sequential :
        LET c == call[t]
            r == Val(c.last_response)
        IN  c.op \in {"execute_workflow", "get_workflow_status", "get_job_status",
                      "get_usage_limits"}
                /\ Received(c) /\ CarriesRateLimit(r.headers)
            => IsSnapshotOf(rate_limit_info, r.headers)

----------------------------------------------------------------------------
(* Properties of the request body and the encoder *)

\* The keys of the caller's input (none without input).
InputKeySeq == IF IsNone(input_data) THEN << >> ELSE Val(input_data).keys

\* The value a dict holds at a key it has.
DictGet(d, key) == d.vals[CHOOSE i \in 1..Len(d.keys) : d.keys[i] = key]

\* C16: the request body of execute_workflow has the keys of the input, each once,
\* plus stream exactly when the caller gave stream (true or false) and
\* selectedOutputs exactly when the caller gave a list; the two keys then hold the
\* given values.  With both omitted the body's keys are the input's keys.
C16_ControlKeysOnlyWhenGiven ==
    \A t \in Sequential :
        LET c == call[t]
            body == Val(sent_body)
        IN  c.op = "execute_workflow"
            => /\ ~IsNone(sent_body)
               /\ body.t = "dict"
               /\ Len(body.keys) = Cardinality(Range(body.keys))
               /\ Range(body.keys) =
                    Range(InputKeySeq)
                        \cup (IF IsNone(c.stream) THEN {} ELSE {"stream"})
                        \cup (IF IsNone(c.selected_outputs) THEN {} ELSE {"selectedOutputs"})
               /\ ~IsNone(c.stream)
                    => DictGet(body, "stream")
                         = Leaf(<<IF Val(c.stream) THEN "true" ELSE "false">>)
               /\ ~IsNone(c.selected_outputs)
                    => /\ DictGet(body, "selectedOutputs").t = "list"
                       /\ Len(DictGet(body, "selectedOutputs").items)
                            = Len(Val(c.selected_outputs))
               /\ IsNone(c.stream) /\ IsNone(c.selected_outputs)
                    => body.keys = InputKeySeq

\* A call with stream = False and no selected_outputs on an input with one key: the
\* body has that key and stream, and no selectedOutputs.
C16_Witness ==
    \E t \in Sequential :
        LET c == call[t]
        IN  /\ c.op = "execute_workflow"
            /\ c.stream = Some(FALSE) /\ IsNone(c.selected_outputs)
            /\ InputKeySeq = <<"a">>
            /\ ~IsNone(sent_body)
            /\ Val(sent_body).keys = <<"a", "stream">>

\* Is `out` a file-reference object?
IsFileReference(out) ==
    /\ out.t = "dict"
    /\ out.keys = <<"type", "data", "name", "mime">>
    /\ out.vals[1] = Leaf(<<"file">>)

\* Has `out` the shape of `in`, with every file-like leaf replaced by a
\* file-reference object and every other leaf unchanged?
RECURSIVE SameShape(_, _)
SameShape(in, out) ==
    CASE in.t = "file" -> IsFileReference(out)
      [] in.t = "list" ->
            /\ out.t = "list"
            /\ Len(out.items) = Len(in.items)
            /\ \A i \in 1..Len(in.items) : SameShape(in.items[i], out.items[i])
      [] in.t = "dict" ->
            /\ out.t = "dict"
            /\ out.keys = in.keys
            /\ Len(out.vals) = Len(in.vals)
            /\ \A i \in 1..Len(in.vals) : SameShape(in.vals[i], out.vals[i])
      [] OTHER -> out = in

\* C18: the encoder returns a value of the shape of its input: a list keeps its
\* length and the order of its items, a dict its keys in insertion order, a leaf
\* that is no file-like object is returned unchanged, and a file-like leaf is
\* replaced by a file-reference object.
C18_EncoderKeepsShape ==
    \A i \in 1..Len(encoded) : SameShape(Val(input_data), encoded[i])

\* The encoder has run on a dict that holds a list of a file-like object and a
\* scalar: the file reference comes first, the scalar second.
C18_Witness ==
    /\ Len(encoded) >= 1
    /\ Val(input_data) = Dict(<<"a">>, <<List(<<FileObj("f2"), Leaf(<<"a">>)>>)>>)
    /\ IsFileReference(encoded[1].vals[1].items[1])
    /\ encoded[1].vals[1].items[2] = Leaf(<<"a">>)

\* A seekable source: a file-like object with tell and seek.
Seekable(f) == f.has_tell /\ f.has_seek

\* The file-like objects that occur in a value.
RECURSIVE FilesIn(_)
FilesIn(value) ==
    CASE value.t = "file" -> {value.id}
      [] value.t = "list" -> UNION {FilesIn(value.items[i]) : i \in 1..Len(value.items)}
      [] value.t = "dict" -> UNION {FilesIn(value.vals[i]) : i \in 1..Len(value.vals)}
      [] OTHER -> {}

\* C19: no step moves the read position of a seekable source, so when the encoder
\* runs twice on one input whose sources are all seekable, both runs return the
\* same value; the payload of a source read from position 1 of the bytes
\* 77 97 110 255 is the base64 text of 97 110 255 both times.
C19_SeekableSourceIsRestored ==
    /\ [][\A id \in DOMAIN files :
            Seekable(files[id]) => files'[id].pos = files[id].pos]_vars
    /\ [](Len(encoded) = 2 /\ (\A id \in FilesIn(Val(input_data)) : Seekable(files[id]))
            => encoded[1] = encoded[2])
    /\ [](\A i \in 1..Len(encoded) :
            Val(input_data) = FileObj("f1")
            => encoded[i].vals[2] =
                 Leaf(<<"data:", "application/octet-stream", ";base64,",
                        "Y", "W", "7", "/">>))

\* The encoder has run twice on a list that holds the same seekable source twice.
C19_Witness ==
    /\ Len(encoded) = 2
    /\ Val(input_data) = List(<<FileObj("f1"), FileObj("f1")>>)
    /\ encoded[1] = encoded[2]
    /\ IsFileReference(encoded[2].items[2])
    /\ files["f1"].pos = 1

----------------------------------------------------------------------------
(* Properties of the API key *)

\* C20: client.api_key is always the key in the session's default headers, and the
\* request of every exchange, on any endpoint and in either mode, carries the
\* current key (the one given at construction or by the latest set_api_key) as
\* X-API-Key.
C20_RequestsCarryCurrentKey ==
    /\ [](api_key = session_headers["X-API-Key"])
    /\ [][\A t \in Sequential :
            api_key' = api_key /\ call'[t].last_step = "dispatch"
            => /\ sent' # << >>
               /\ sent'["X-API-Key"] = api_key]_vars

\* An asynchronous execute request and a read request sent with the second key.
C20_Witness ==
    /\ api_key = "key-2"
    /\ sent # << >>
    /\ sent["X-API-Key"] = "key-2"
    /\ \E t \in Sequential : call[t].op = "get_job_status"
    /\ earlier_async

----------------------------------------------------------------------------
(* Properties of concurrent calls of execute_with_retry *)

RECURSIVE Power(_, _)
Power(b, n) == IF n = 0 THEN 1 ELSE b * Power(b, n - 1)

Min(a, b) == IF a < b THEN a ELSE b

\* The attempt counter and the running delay of a call follow from its own
\* parameters and the number of its own rate-limited attempts that were slept on.
OwnCounters(c) ==
    /\ c.attempt = c.sleeps
    /\ c.delay = c.initial_delay * Power(c.backoff_multiplier, c.sleeps)

\* The base wait that the call's own latest response and own running delay give:
\* the retry-after hint of that response in seconds, or without one (or with a
\* hint of 0) the running delay before the sleep, capped by max_delay.
OwnBaseWait(c) ==
    LET own == SnapshotOf(Val(c.last_response).headers)
        delay == c.initial_delay * Power(c.backoff_multiplier, c.sleeps - 1)
    IN  IF ~IsNone(own.retry_after) /\ Val(own.retry_after) # 0
        THEN Val(own.retry_after) \div 1000
        ELSE Min(delay, c.max_delay)

----------------------------------------------------------------------------
(* Properties of the wait between attempts *)

\* The step in which thread t's call computes the wait of a retry.
ComputesWait(t) == call[t].pc = "backoff" /\ ~IsNone(call'[t].wait_time)

\* Does the snapshot hold a retry-after hint (of any value)?
HasHint(info) == ~IsNone(info) /\ ~IsNone(Val(info).retry_after)

\* C22: on a rate-limit failure that is not the last allowed attempt, the base wait
\* is the snapshot's retry-after hint in seconds when the snapshot holds a hint, a
\* hint of 0 included, and otherwise the minimum of the call's running delay and
\* max_delay.
C22_BaseWaitPrefersHint ==
    [][\A t \in Sequential :
          ComputesWait(t)
          => Val(call'[t].wait_time) =
               IF HasHint(rate_limit_info)
               THEN Val(Val(rate_limit_info).retry_after) \div 1000
               ELSE Min(call[t].delay, call[t].max_delay)]_vars
\* C23: the running delay of a call after k rate-limited attempts that were followed
\* by a sleep is initial_delay * backoff_multiplier^k, whether the waits used a
\* retry-after hint or the backoff delay, and it is not capped by max_delay; every
\* completed sleep multiplies the running delay by backoff_multiplier.
C23_DelayGrowsByMultiplier ==
    /\ [](\A t \in Sequential :
            LET c == call[t]
            IN  RetryCall(c)
                => c.delay = c.initial_delay * Power(c.backoff_multiplier, c.sleeps))
    /\ [][\A t \in Sequential :
            ComputesWait(t) /\ call'[t].last_step = "sleep"
            => call'[t].delay = call[t].delay * call[t].backoff_multiplier]_vars

\* After two sleeps, the second on the hint of 2 seconds, a call that began with a
\* delay of 1 and max_delay 3 holds the running delay 4.
C23_Witness ==
    \E t \in Sequential :
        LET c == call[t]
        IN  /\ RetryCall(c)
            /\ c.sleeps = 2 /\ c.last_step = "sleep"
            /\ c.last_response = Some(R429Hint)
            /\ c.wait_time = Some(2)
            /\ c.initial_delay = 1 /\ c.max_delay = 3
            /\ c.delay = 4
\* C24: every sleep of execute_with_retry lasts between 0.75 and 1.25 times the base
\* wait computed for that retry, for every value of the random source (lengths in
\* eighths of a second: between 6 and 10 times the base wait in seconds), so its
\* length is never negative and the sleep takes place.
C24_SleepWithinJitterBounds ==
    \A t \in Sequential :
        LET c == call[t]
        IN  RetryCall(c) /\ ~IsNone(c.jitter)
            => /\ 6 * Val(c.wait_time) <= Val(c.jitter)
               /\ Val(c.jitter) <= 10 * Val(c.wait_time)
               /\ Val(c.jitter) >= 0
               /\ c.last_step = "sleep"
----------------------------------------------------------------------------
(* Properties of the order of tracker update and classification *)

\* The exchange this step makes in execute_workflow, when it brings a response of
\* an error status (429 or any other 4xx/5xx).
FailsOnResponse(t) ==
    /\ ~IsNone(response)
    /\ Val(response).transport = "ok"
    /\ ~Ok(Val(response).status)
    /\ call'[t].op = "execute_workflow"
    /\ call'[t].last_response = response

\* C25: when an exchange of execute_workflow brings a 429 or any other 4xx/5xx
\* response, the call fails and the snapshot it leaves already reflects the headers
\* of that response: it is the snapshot derived from them when they carry one of
\* the rate-limit headers, and the snapshot before the exchange otherwise.
C25_TrackerUpdatedBeforeClassification ==
    [][\A t \in Sequential :
          FailsOnResponse(t)
          => /\ call'[t].outcome.kind = "raised"
             /\ IF CarriesRateLimit(Val(response).headers)
                THEN IsSnapshotOf(rate_limit_info', Val(response).headers)
                ELSE rate_limit_info' = rate_limit_info]_vars
----------------------------------------------------------------------------
(* Properties of the failure paths of execute_workflow *)

\* The exchange this step makes in execute_workflow, when the transport fails.
TransportFails(t) ==
    /\ ~IsNone(response)
    /\ Val(response).transport # "ok"
    /\ call'[t].op = "execute_workflow"
    /\ call'[t].last_response = response

\* C26: when the transport fails in execute_workflow, the call raises a
\* SimStudioError of code TIMEOUT for a timeout and of code EXECUTION_ERROR for any
\* other transport failure, both without an HTTP status, and the snapshot after the
\* call is the one before it.
C26_TransportFailureCodes ==
    [][\A t \in Sequential :
          TransportFails(t)
          => /\ HasCode(call'[t].outcome,
                        IF Val(response).transport = "timeout" THEN "TIMEOUT"
                        ELSE "EXECUTION_ERROR")
             /\ call'[t].outcome.value.status = None
             /\ rate_limit_info' = rate_limit_info]_vars

\* A call has timed out on a client that holds a snapshot from an earlier response.
C26_Witness ==
    \E t \in Sequential :
        LET c == call[t]
        IN  /\ c.op = "execute_workflow"
            /\ c.last_response = Some(TransportTimeout)
            /\ HasCode(c.outcome, "TIMEOUT")
            /\ ~IsNone(rate_limit_info)
\* C27: for a response of an error status other than 429 whose body is no JSON
\* object (not JSON at all, or JSON that is no object, such as a list),
\* execute_workflow still raises a SimStudioError with the HTTP status, no code and
\* the synthesized message "HTTP <status>: <reason>".
C27_UnusableErrorBodyDegrades ==
    \A t \in Sequential :
        LET c == call[t]
            r == Val(c.last_response)
        IN  c.op = "execute_workflow" /\ Received(c) /\ ~Ok(r.status) /\ r.status # 429
                /\ r.body.json # "object"
            => /\ IsSimStudioError(c.outcome)
               /\ c.outcome.value.status = Some(r.status)
               /\ c.outcome.value.code = None
               /\ c.outcome.value.message =
                    <<"HTTP ", StrOfInt(r.status), ": ", Reason(r.status)>>
----------------------------------------------------------------------------
(* Properties of the outcome of execute_with_retry *)

\* Is `out` the generic error that the end of execute_with_retry builds?
IsMaxRetriesExceeded(out) ==
    /\ HasCode(out, "MAX_RETRIES_EXCEEDED")
    /\ out.value.message = <<"Max retries exceeded">>
    /\ out.value.status = None

\* Are the two outcomes the same result or the same exception?
SameOutcome(a, b) == a.kind = b.kind /\ a.type = b.type /\ a.value = b.value

\* C28: a call of execute_with_retry ends with the generic MAX_RETRIES_EXCEEDED error
\* exactly when it made no dispatch (max_retries < 0); a call that made a dispatch
\* ends with the result or the error of its dispatches, the one of the last.
C28_GenericErrorIffNoDispatch ==
    \A t \in Sequential :
        LET c == call[t]
        IN  RetryCall(c) /\ Finished(c)
            => /\ IsMaxRetriesExceeded(c.outcome) <=> Dispatches(c) = 0
               /\ Dispatches(c) = 0 <=> c.max_retries < 0
               /\ Dispatches(c) >= 1 => SameOutcome(c.outcome, c.dispatched)
\* C29: every error of code RATE_LIMIT_EXCEEDED that a dispatch of execute_workflow
\* raises has status 429, and execute_with_retry goes on to a wait, and sleeps, only
\* after a response of status 429.
C29_RetryOnlyAfter429 ==
    \A t \in Sequential :
        LET c == call[t]
        IN  /\ c.op \in {"execute_workflow", "execute_with_retry"}
                    /\ HasCode(c.dispatched, "RATE_LIMIT_EXCEEDED")
                => c.dispatched.value.status = Some(429)
            /\ RetryCall(c)
                => /\ c.pc = "backoff" => c.statuses[Len(c.statuses)] = 429
                   /\ \A i \in 1..c.sleeps : c.statuses[i] = 429
----------------------------------------------------------------------------
(* Properties of the origin of the hint *)

\* Does the wait computed from this snapshot come from its hint?  (The truth test
\* of the wait: a snapshot, with a hint other than 0.)
TakesHint(info) == HasHint(info) /\ Val(Val(info).retry_after) # 0

\* The headers of the latest response of thread t's call.
OwnHeaders(t) == Val(call[t].last_response).headers

----------------------------------------------------------------------------
(* Properties of the caller's input across calls *)

\* The step is a call of execute_workflow by thread t.
Executes(t) == call[t].op = "none" /\ call'[t].op = "execute_workflow"

\* C31: execute_workflow leaves the caller's input as it was, on success and on
\* failure: the same keys in the same order with the same values, so no stream or
\* selectedOutputs key is added and no file-like leaf, at the root or nested, is
\* replaced by a file-reference object.
C31_InputLeftUnchanged ==
    /\ [][\A t \in Sequential : Executes(t) => input_data' = input_data]_vars
    /\ [](~IsNone(input_data) /\ Val(input_data).t = "dict"
            => "selectedOutputs" \notin Range(InputKeySeq))

\* A call with stream and selected_outputs on a dict that holds a list with a
\* file-like object has failed on a 500: the body sent has the two control keys and a
\* file reference, the input has neither.
C31_Witness ==
    \E t \in Sequential :
        LET c == call[t]
        IN  /\ c.op = "execute_workflow"
            /\ c.statuses = <<500>>
            /\ c.stream = Some(TRUE)
            /\ c.selected_outputs = Some(<<"agent1.content">>)
            /\ input_data = Some(Dict(<<"a">>, <<List(<<FileObj("f2"), Leaf(<<"a">>)>>)>>))
            /\ Val(sent_body).keys = <<"a", "stream", "selectedOutputs">>
            /\ IsFileReference(Val(sent_body).vals[1].items[1])
\* The caller's input holds only seekable sources.
OnlySeekableSources ==
    IsNone(input_data) \/ \A id \in FilesIn(Val(input_data)) : Seekable(files[id])

\* The step is a dispatch of thread t's call of execute_with_retry after its first.
LaterAttempt(t) ==
    /\ call[t].pc = "attempt"
    /\ Dispatches(call[t]) >= 1
    /\ Dispatches(call'[t]) = Dispatches(call[t]) + 1

\* C32: within one call of execute_with_retry whose input holds only seekable
\* sources, every attempt after the first sends the request of the attempt before
\* it, and so the request of the first: the same URL, the same headers (the mode
\* header among them) and the same JSON body with the same file payloads.
C32_EveryAttemptSendsSameRequest ==
    [][\A t \in Sequential :
          LaterAttempt(t) /\ OnlySeekableSources
          => /\ sent_url' = sent_url
             /\ sent' = sent
             /\ sent_body' = sent_body]_vars

\* The third attempt of an asynchronous call on the second workflow, whose input
\* holds a list with the seekable source twice: the request carries the mode header
\* and, twice, the payload read from position 1.
C32_Witness ==
    \E t \in Sequential :
        LET c == call[t]
        IN  /\ RetryCall(c) /\ Dispatches(c) = 3
            /\ c.workflow_id = "wf-2"
            /\ input_data = Some(Dict(<<"a">>, <<List(<<FileObj("f1"), FileObj("f1")>>)>>))
            /\ sent_url = Some(ExecuteUrl("wf-2"))
            /\ HasModeHeader(sent)
            /\ Val(sent_body).vals[1].items[2].vals[2] =
                 Leaf(<<"data:", "application/octet-stream", ";base64,",
                        "Y", "W", "7", "/">>)
====
